---- MODULE Spec2Model ----
(***************************************************************************)
(* A model of gretel_synthetics/batch.py: the Batch record, the batch      *)
(* store built by _build_batch_dirs, and the DataFrameBatch coordinator.   *)
(*                                                                         *)
(* Text is a sequence of one-character tokens; a stream is a sequence of   *)
(* lines (the text written before each "\n").  Batch numbers are 0-based   *)
(* as in the code; TLA+ sequences are 1-based.                             *)
(***************************************************************************)
EXTENDS Integers, Sequences, FiniteSets, TLC

\* ------------------------------------------------------------------ bounds
\* Longest column list of a source DataFrame.
MaxCols == 5
\* Most rows of a source DataFrame.
MaxRows == 2
\* Largest gen_lines a config template names.
MaxGenLines == 1
\* Longest line the validators are tried on.
MaxLineLen == 2

\* ------------------------------------------------------------------- text
None == "None"
\* a missing value of a DataFrame (numpy.nan); no text equals it
NaN == <<"NaN">>
\* config["field_delimiter"], one character
Delim == ","
Quote == "\""
\* the universe of column names (one-character texts), in no particular order
Names == << <<"c">>, <<"a">>, <<"d">>, <<"b">>, <<"e">>, <<"f">> >>
\* the text of a non-empty cell
X == <<"x">>
Y == <<"y">>
\* the empty string
Empty == <<>>

Min(a, b) == IF a < b THEN a ELSE b
Max(a, b) == IF a > b THEN a ELSE b

Range(s) == {s[k] : k \in 1..Len(s)}

RECURSIVE Flatten(_)
Flatten(ss) == IF ss = <<>> THEN <<>> ELSE Head(ss) \o Flatten(Tail(ss))

RECURSIVE SeqsUpTo(_, _)
\* all sequences over S of length at most n
SeqsUpTo(S, n) ==
    IF n = 0 THEN {<<>>}
    ELSE LET shorter == SeqsUpTo(S, n - 1)
         IN  shorter \cup {Append(s, x) : s \in shorter, x \in S}

\* sep.join(strs)
RECURSIVE Join(_, _)
Join(strs, sep) ==
    IF strs = <<>> THEN <<>>
    ELSE IF Len(strs) = 1 THEN Head(strs)
    ELSE Head(strs) \o <<sep>> \o Join(Tail(strs), sep)

\* text.split(sep): the fields between the separators, never an empty list
RECURSIVE SplitFrom(_, _, _)
SplitFrom(text, sep, cur) ==
    IF text = <<>> THEN <<cur>>
    ELSE IF Head(text) = sep THEN <<cur>> \o SplitFrom(Tail(text), sep, <<>>)
    ELSE SplitFrom(Tail(text), sep, Append(cur, Head(text)))

Split(text, sep) == SplitFrom(text, sep, <<>>)

\* -------------------------------------------------------------- partition
\* np.array_split(cols, n) for n >= 1: the first len % n chunks hold
\* len // n + 1 elements, the others len // n, cut in order.
ChunkStart(len, n, k) == (k - 1) * (len \div n) + Min(k - 1, len % n)

\* mutant: every chunk holds len // n elements, the extras are lost
ArraySplitDropsExtras(cols, n) ==
    [k \in 1..n |->
        SubSeq(cols, ChunkStart(Len(cols), n, k) + 1,
                     ChunkStart(Len(cols), n, k) + (Len(cols) \div n))]

ArraySplit(cols, n) ==
    [k \in 1..n |->
        SubSeq(cols, ChunkStart(Len(cols), n, k) + 1,
                     ChunkStart(Len(cols), n, k + 1))]

\* mutant: never fewer than one batch
NumBatchesAtLeastOne(ncols, size) == Max(1, ncols \div size)

\* num_batches, for a batch_size other than 0
NumBatches(ncols, size) == ncols \div size

\* DataFrameBatch._create_header_batches: the outcome of the two statements.
\* len // 0 raises ZeroDivisionError; np.array_split raises ValueError for
\* zero sections.
CreateHeaderBatches(cols, size) ==
    IF size = 0 THEN [err |-> "ZeroDivisionError", groups |-> <<>>]
    ELSE IF NumBatches(Len(cols), size) = 0
         THEN [err |-> "ValueError", groups |-> <<>>]
    ELSE [err |-> "ok",
          groups |-> ArraySplit(cols, NumBatches(Len(cols), size))]

\* ----------------------------------------------------------------- tables
\* A DataFrame with a RangeIndex: its column labels and its rows, each row
\* a sequence of cells (a text or NaN), one per column.
DataFrame(columns, rows) == [columns |-> columns, rows |-> rows]

\* pd.DataFrame(): no columns, no rows
EmptyDataFrame == DataFrame(<<>>, <<>>)

\* df.fillna("", inplace=True)
FillNa(df) ==
    DataFrame(df.columns,
              [r \in 1..Len(df.rows) |->
                  [k \in 1..Len(df.columns) |->
                      IF df.rows[r][k] = NaN THEN Empty ELSE df.rows[r][k]]])

\* the positions of the columns labelled name, in order
RECURSIVE PositionsFrom(_, _, _)
PositionsFrom(columns, name, k) ==
    IF k > Len(columns) THEN <<>>
    ELSE (IF columns[k] = name THEN <<k>> ELSE <<>>)
         \o PositionsFrom(columns, name, k + 1)

Positions(columns, names) ==
    Flatten([n \in 1..Len(names) |-> PositionsFrom(columns, names[n], 1)])

\* df[names]: KeyError when a name is no column label; a label carried by
\* several columns selects them all.
HasColumns(df, names) == \A n \in 1..Len(names) : names[n] \in Range(df.columns)

SelectColumns(df, names) ==
    LET pos == Positions(df.columns, names)
    IN  DataFrame([k \in 1..Len(pos) |-> df.columns[pos[k]]],
                  [r \in 1..Len(df.rows) |->
                      [k \in 1..Len(pos) |-> df.rows[r][pos[k]]]])

\* pd.concat([left, right], axis=1) of two frames with a RangeIndex: the
\* columns side by side, rows paired by position, the shorter frame's
\* columns NaN in the extra rows.
PadRow(df, r) ==
    IF r <= Len(df.rows) THEN df.rows[r] ELSE [k \in 1..Len(df.columns) |-> NaN]

\* mutant: only the rows both frames have are kept
ConcatColumnsInner(left, right) ==
    DataFrame(left.columns \o right.columns,
              [r \in 1..Min(Len(left.rows), Len(right.rows)) |->
                  left.rows[r] \o right.rows[r]])

ConcatColumns(left, right) ==
    DataFrame(left.columns \o right.columns,
              [r \in 1..Max(Len(left.rows), Len(right.rows)) |->
                  PadRow(left, r) \o PadRow(right, r)])

\* One line of df.to_csv(header=False, index=False, sep=sep): the cells
\* joined by sep; csv quotes the lone empty field of a one-column row.
ToCsvLine(row, sep) ==
    IF row = <<Empty>> THEN <<Quote, Quote>> ELSE Join(row, sep)

ToCsv(df, sep) == [r \in 1..Len(df.rows) |-> ToCsvLine(df.rows[r], sep)]

\* pd.read_csv(stream, sep=sep) with its defaults, for a stream whose data
\* lines hold no more fields than the header line: the first line gives the
\* column labels, blank lines are skipped (skip_blank_lines=True), an empty
\* field, quoted ("") or not, reads as NaN (keep_default_na=True) and a
\* short line is filled with NaN on the right.
RECURSIVE NonBlank(_)
NonBlank(lines) ==
    IF lines = <<>> THEN <<>>
    ELSE (IF Head(lines) = Empty THEN <<>> ELSE <<Head(lines)>>)
         \o NonBlank(Tail(lines))

ParseRow(line, sep, width) ==
    LET fields == Split(line, sep)
    IN  [k \in 1..width |->
            IF k > Len(fields) \/ fields[k] \in {Empty, <<Quote, Quote>>}
            THEN NaN ELSE fields[k]]

ReadCsv(stream, sep) ==
    LET lines == NonBlank(stream)
        columns == Split(Head(lines), sep)
    IN  IF lines = <<>> THEN EmptyDataFrame
        ELSE DataFrame(columns,
                       [r \in 1..(Len(lines) - 1) |->
                           ParseRow(lines[r + 1], sep, Len(columns))])

\* ------------------------------------------------------------- filesystem
\* config["checkpoint_dir"] of the template
Root == <<"ckpt">>
\* f"batch_{i}"
BatchNames == <<"batch_0", "batch_1", "batch_2", "batch_3", "batch_4",
                "batch_5", "batch_6", "batch_7">>
BatchName(i) == BatchNames[i + 1]
\* Path(base_ckpoint) / f"batch_{i}"
BatchDir(base, i) == Append(base, BatchName(i))
TrainFile(dir) == Append(dir, "train.csv")
\* mutant: one validator file for all batches, in the root
ValidatorFileShared(dir) == Append(Root, "validator.p.gz")

ValidatorFile(dir) == Append(dir, "validator.p.gz")

\* The persistence capability, gzip over pickle: a callable is stored as a
\* reference to it and loaded back by resolving the reference.
PickleDumps(fn) == [kind |-> "pickle", data |-> <<fn>>]
PickleLoads(content) == content.data[1]
CsvContent(lines) == [kind |-> "csv", data |-> lines]

\* ------------------------------------------------------------- validators
\* The callables a caller installs.  A validator answers "True", "False" or
\* "None" (no answer).
AcceptAll == "accept_all"
NoBlanks == "no_blanks"
Validators == {AcceptAll, NoBlanks}
\* an argument of set_batch_validator that is not callable
NotCallable == "not_callable"
\* the bound method Batch._basic_validator
Basic == "_basic_validator"

\* mutant: the callable check is missing
CallableAnything(fn) == TRUE

\* callable(fn)
Callable(fn) == fn \in Validators

\* accept_all(line): return True
\* no_blanks(line): return False if a field is empty, nothing otherwise
CallCustom(fn, raw_line) ==
    IF fn = AcceptAll THEN "True"
    ELSE IF Empty \in Range(Split(raw_line, Delim)) THEN "False" ELSE "None"

\* ------------------------------------------------------------------ Batch
\* mutant: the stream is kept
ResetKeepsLines(b) ==
    [b EXCEPT !.gen_data_invalid = <<>>, !.gen_data_count = 0]

\* Batch.reset_gen_data
ResetGenData(b) ==
    [b EXCEPT !.gen_data_invalid = <<>>,
              !.gen_data_stream = <<Join(b.headers, b.config.field_delimiter)>>,
              !.gen_data_count = 0]

\* Batch(...): the dataclass constructor followed by __post_init__
NewBatch(checkpoint_dir, input_data_path, headers, config) ==
    ResetGenData([checkpoint_dir |-> checkpoint_dir,
                  input_data_path |-> input_data_path,
                  headers |-> headers,
                  config |-> config,
                  gen_data_count |-> 0,
                  training_df |-> <<>>,
                  gen_data_stream |-> <<>>,
                  gen_data_invalid |-> <<>>,
                  validator |-> None])

\* Batch.synthetic_df; read_csv reads the stream to its end, so later writes
\* still append
SyntheticDf(b) ==
    IF b.gen_data_stream = <<>> THEN EmptyDataFrame
    ELSE ReadCsv(b.gen_data_stream, b.config.field_delimiter)

\* mutant: the line is written but not counted
AddValidDataNoCount(b, data) ==
    [b EXCEPT !.gen_data_stream = Append(@, data.text)]

\* Batch.add_valid_data
AddValidData(b, data) ==
    [b EXCEPT !.gen_data_stream = Append(@, data.text),
              !.gen_data_count = @ + 1]

\* mutant: a line with too few fields passes
BasicValidatorAtMost(b, raw_line) ==
    Len(Split(raw_line, b.config.field_delimiter)) <= Len(b.headers)

\* Batch._basic_validator
BasicValidator(b, raw_line) ==
    Len(Split(raw_line, b.config.field_delimiter)) = Len(b.headers)

\* Batch.get_validator
GetValidator(b) == IF b.validator # None THEN b.validator ELSE Basic

\* validator(raw_line) for a validator get_validator returned
CallValidator(b, validator, raw_line) ==
    IF validator = Basic
    THEN (IF BasicValidator(b, raw_line) THEN "True" ELSE "False")
    ELSE CallCustom(validator, raw_line)

\* ------------------------------------------------------------------ state
VARIABLES
    constructed,         \* a DataFrameBatch object exists
    source_df,           \* DataFrameBatch._source_df
    batch_size,          \* DataFrameBatch.batch_size
    master_header_list,  \* DataFrameBatch.master_header_list
    batch_headers,       \* DataFrameBatch.batch_headers
    config,              \* DataFrameBatch.config, the template
    batches,             \* DataFrameBatch.batches: batch number -> Batch
    fs_dirs,             \* the directories on disk
    fs_files,            \* the files on disk: path -> content
    call,                \* the generation call in progress, if any
    ret                  \* how the last call ended

vars == <<constructed, source_df, batch_size, master_header_list, batch_headers,
          config, batches, fs_dirs, fs_files, call, ret>>

object == <<constructed, source_df, batch_size, master_header_list, batch_headers,
            config>>
disk == <<fs_dirs, fs_files>>

NoStatus == <<>>
Idle == [op |-> "idle", idx |-> 0, max_invalid |-> 0, validator |-> None,
         n_valid |-> 0, n_invalid |-> 0, yielded |-> <<>>, all |-> FALSE,
         status |-> NoStatus]

\* The outcome of a call: its batch_idx and validator arguments (for
\* train_batch on a known batch, arg is how train_rnn ended), the exception
\* raised ("none": it returned) with its message, and the value returned.
Outcome(op, idx, exc, msg, flag, status, df) ==
    [op |-> op, idx |-> idx, arg |-> "", exc |-> exc, msg |-> msg, flag |-> flag,
     status |-> status, df |-> df]
Returned(op, idx) == Outcome(op, idx, "none", "", FALSE, NoStatus, <<>>)
Raised(op, idx, exc, msg) == Outcome(op, idx, exc, msg, FALSE, NoStatus, <<>>)

Keys == DOMAIN batches

\* files with the content of path replaced or added
WriteFile(files, path, content) ==
    [p \in DOMAIN files \cup {path} |-> IF p = path THEN content ELSE files[p]]

\* ------------------------------------------------------ _build_batch_dirs
\* mutant: nothing is loaded
LoadValidatorNever(b, files) == b

\* Batch.load_validator_from_file
LoadValidatorFromFile(b, files) ==
    IF ValidatorFile(b.checkpoint_dir) \in DOMAIN files
    THEN [b EXCEPT !.validator = PickleLoads(files[ValidatorFile(b.checkpoint_dir)])]
    ELSE b

\* new_config: the template with the two paths overridden
BatchConfig(template, checkpoint_dir, input_data_path) ==
    [template EXCEPT !.checkpoint_dir = checkpoint_dir,
                     !.input_data_path = input_data_path]

\* the mapping _build_batch_dirs returns
BuildBatches(base_ckpoint, headers, template, files) ==
    [i \in 0..(Len(headers) - 1) |->
        LoadValidatorFromFile(
            NewBatch(BatchDir(base_ckpoint, i),
                     TrainFile(BatchDir(base_ckpoint, i)),
                     headers[i + 1],
                     BatchConfig(template, BatchDir(base_ckpoint, i),
                                 TrainFile(BatchDir(base_ckpoint, i)))),
            files)]

\* mutant: every batch directory is made afresh, what it held is gone
BuildFilesAfresh(base_ckpoint, headers, files) ==
    [p \in {q \in DOMAIN files :
               \A i \in 0..(Len(headers) - 1) :
                  SubSeq(q, 1, Len(base_ckpoint) + 1) # BatchDir(base_ckpoint, i)} |->
        files[p]]

\* the files after _build_batch_dirs: it writes and removes none
BuildFiles(base_ckpoint, headers, files) == files

\* the directories after _build_batch_dirs: mkdir of what is missing
BuildDirs(base_ckpoint, headers, template, dirs) ==
    dirs \cup {template.checkpoint_dir}
         \cup {BatchDir(base_ckpoint, i) : i \in 0..(Len(headers) - 1)}

\* --------------------------------------------------- DataFrameBatch.__init__
\* The config argument: absent (None or {}), or a dict that may lack
\* "field_delimiter" and "gen_lines".
ConfigArg(present, has_delim, has_gen_lines, gen_lines) ==
    [present |-> present, has_delim |-> has_delim,
     has_gen_lines |-> has_gen_lines, gen_lines |-> gen_lines]

Template(cfg, df) ==
    [checkpoint_dir |-> Root,
     input_data_path |-> <<>>,
     field_delimiter |-> Delim,
     gen_lines |-> IF cfg.has_gen_lines THEN cfg.gen_lines ELSE Len(df.rows)]

\* batch_headers is <<>> for None (or an empty list): both are falsy
HeaderBatches(df, size, groups) ==
    IF groups = <<>> THEN CreateHeaderBatches(df.columns, size)
    ELSE [err |-> "ok", groups |-> groups]

\* __init__ raises: no object is returned, nothing is written.  df is the
\* source and size the batch_size the unfinished object holds (lines 213 to
\* 219), or an empty frame and 0 when it raises before.
ConstructFails(exc, msg, df, size) ==
    /\ constructed' = FALSE
    /\ source_df' = df
    /\ batch_size' = size
    /\ master_header_list' = df.columns
    /\ batch_headers' = <<>>
    /\ config' = <<>>
    /\ batches' = <<>>
    /\ UNCHANGED disk
    /\ ret' = Raised("__init__", 0, exc, msg)

Construct(df, size, groups, cfg) ==
    /\ call.op = "idle"
    /\ UNCHANGED call
    /\ IF ~cfg.present
       THEN ConstructFails("ValueError", "config is required!", EmptyDataFrame, 0)
       ELSE IF ~cfg.has_delim
       THEN ConstructFails("ValueError", "field_delimiter must be in config",
                           EmptyDataFrame, 0)
       ELSE LET hb == HeaderBatches(FillNa(df), size, groups)
                template == Template(cfg, df)
            IN  IF hb.err # "ok" THEN ConstructFails(hb.err, "", FillNa(df), size)
                ELSE /\ constructed' = TRUE
                     /\ source_df' = FillNa(df)
                     /\ batch_size' = size
                     /\ master_header_list' = df.columns
                     /\ batch_headers' = hb.groups
                     /\ config' = template
                     /\ batches' = BuildBatches(Root, hb.groups, template, fs_files)
                     /\ fs_dirs' = BuildDirs(Root, hb.groups, template, fs_dirs)
                     /\ fs_files' = BuildFiles(Root, hb.groups, fs_files)
                     /\ ret' = Returned("__init__", 0)

\* ------------------------------------------------- create_training_data
SetMin(S) == CHOOSE m \in S : \A n \in S : m <= n

\* the batches the loop completes: all, or those before the first one whose
\* headers name a column the source lacks (df[headers] raises KeyError)
Extracted ==
    LET bad == {i \in Keys : ~HasColumns(source_df, batches[i].headers)}
    IN  IF bad = {} THEN Keys ELSE {i \in Keys : i < SetMin(bad)}

OutDf(i) == SelectColumns(source_df, batches[i].headers)

CreateTrainingData ==
    /\ constructed /\ call.op = "idle"
    /\ batches' = [i \in Keys |->
                     IF i \in Extracted
                     THEN [batches[i] EXCEPT !.training_df = <<OutDf(i)>>]
                     ELSE batches[i]]
    /\ fs_files' =
         [p \in DOMAIN fs_files \cup {batches[i].input_data_path : i \in Extracted} |->
            IF \E i \in Extracted : p = batches[i].input_data_path
            THEN LET i == CHOOSE j \in Extracted : p = batches[j].input_data_path
                 IN  CsvContent(ToCsv(OutDf(i), config.field_delimiter))
            ELSE fs_files[p]]
    /\ ret' = IF Extracted = Keys THEN Returned("create_training_data", 0)
              ELSE Raised("create_training_data", 0, "KeyError", "")
    /\ UNCHANGED <<object, fs_dirs, call>>

\* ------------------------------------------------------------ train_batch
\* How a call of the training capability train_rnn ends: it returns or it
\* raises.  What it writes under the batch's checkpoint directory is its own
\* and nothing in batch.py reads it.
TrainOutcomes == {"ok", "KeyError", "RuntimeError"}

\* mutant: the except clause is missing
TrainRaisesUntranslated(exc) == Raised("train_batch", 0, exc, "")

\* the exception train_batch raises for an exception raised in its try block
TrainRaises(exc) ==
    IF exc = "KeyError" THEN Raised("train_batch", 0, "ValueError", "batch_idx is invalid")
    ELSE Raised("train_batch", 0, exc, "")

TrainBatch(batch_idx, outcome) ==
    /\ constructed /\ call.op = "idle"
    /\ ret' = IF batch_idx \notin Keys
              THEN [TrainRaises("KeyError") EXCEPT !.idx = batch_idx]
              ELSE IF outcome = "ok"
              THEN [Returned("train_batch", batch_idx) EXCEPT !.arg = outcome]
              ELSE [TrainRaises(outcome) EXCEPT !.idx = batch_idx, !.arg = outcome]
    /\ UNCHANGED <<object, batches, disk, call>>

\* train_all_batches: train_batch for each key in order, up to the first
\* call that raises
TrainAllBatches(outcomes) ==
    /\ constructed /\ call.op = "idle"
    /\ LET failed == {i \in Keys : outcomes[i] # "ok"}
       IN  ret' = IF failed = {} THEN Returned("train_all_batches", 0)
                  ELSE [TrainRaises(outcomes[SetMin(failed)])
                           EXCEPT !.op = "train_all_batches",
                                  !.idx = SetMin(failed)]
    /\ UNCHANGED <<object, batches, disk, call>>

\* ---------------------------------------------------- set_batch_validator
\* Batch.set_validator
SetValidator(b, fn, save) == [b EXCEPT !.validator = fn]

\* the files after Batch.set_validator
SetValidatorFiles(b, fn, save, files) ==
    IF save THEN WriteFile(files, ValidatorFile(b.checkpoint_dir), PickleDumps(fn))
    ELSE files

SetBatchValidator(batch_idx, validator) ==
    /\ constructed /\ call.op = "idle"
    /\ IF ~Callable(validator)
       THEN /\ ret' = [Raised("set_batch_validator", batch_idx, "ValueError",
                              "validator must be callable!")
                          EXCEPT !.arg = validator]
            /\ UNCHANGED <<batches, fs_files>>
       ELSE IF batch_idx \notin Keys
       THEN /\ ret' = [Raised("set_batch_validator", batch_idx, "ValueError",
                              "invalid batch number!")
                          EXCEPT !.arg = validator]
            /\ UNCHANGED <<batches, fs_files>>
       ELSE /\ batches' = [batches EXCEPT
                             ![batch_idx] = SetValidator(@, validator, TRUE)]
            /\ fs_files' = SetValidatorFiles(batches[batch_idx], validator, TRUE, fs_files)
            /\ ret' = [Returned("set_batch_validator", batch_idx)
                          EXCEPT !.arg = validator]
    /\ UNCHANGED <<object, fs_dirs, call>>

\* --------------------------------------------------- generate_batch_lines
\* A gen_text the generator yields
GenText(text, valid) == [text |-> text, valid |-> valid]

\* The generation capability generate_text(config, line_validator,
\* max_invalid): a lazy sequence that ends once it has yielded
\* config.gen_lines valid lines or more than max_invalid invalid ones.
\* c is the call in progress, with the generator's two counts.
GeneratorDone(c, cfg) ==
    \/ c.n_valid >= cfg.gen_lines
    \/ c.n_invalid > c.max_invalid

GeneratorCounts(c, valid) ==
    IF valid = "False" THEN [c EXCEPT !.n_invalid = @ + 1]
    ELSE [c EXCEPT !.n_valid = @ + 1]

\* mutant: an invalid line is dropped
HandleLineDropsInvalid(b, line) ==
    IF line.valid = None \/ line.valid = "True" THEN AddValidData(b, line) ELSE b

\* the body of the for loop, for one line
HandleLine(b, line) ==
    IF line.valid = None \/ line.valid = "True"
    THEN AddValidData(b, line)
    ELSE [b EXCEPT !.gen_data_invalid = Append(@, line)]

\* mutant: <= for ==
GenerateResultAtMost(b) == b.gen_data_count <= b.config.gen_lines

\* the value generate_batch_lines returns
GenerateResult(b) == b.gen_data_count = b.config.gen_lines

\* the call up to the for loop: the lookup has succeeded
BeginGenerate(batch_idx, max_invalid, all, status) ==
    /\ batches' = [batches EXCEPT ![batch_idx] = ResetGenData(@)]
    /\ call' = [op |-> "generate_batch_lines", idx |-> batch_idx,
                max_invalid |-> max_invalid,
                validator |-> GetValidator(ResetGenData(batches[batch_idx])),
                n_valid |-> 0, n_invalid |-> 0, yielded |-> <<>>, all |-> all,
                status |-> status]

Pending(op, idx) == Outcome(op, idx, "pending", "", FALSE, NoStatus, <<>>)

GenerateBatchLines(batch_idx, max_invalid) ==
    /\ constructed /\ call.op = "idle"
    /\ IF batch_idx \notin Keys
       THEN /\ ret' = Raised("generate_batch_lines", batch_idx, "ValueError",
                             "invalid batch index")
            /\ UNCHANGED <<batches, call>>
       ELSE /\ BeginGenerate(batch_idx, max_invalid, FALSE, NoStatus)
            /\ ret' = Pending("generate_batch_lines", batch_idx)
    /\ UNCHANGED <<object, disk>>

\* one turn of the for loop: the generator yields a line and the body runs;
\* call.yielded lists the lines yielded to this call so far
GenYield(text, valid) ==
    /\ call.op = "generate_batch_lines"
    /\ ~GeneratorDone(call, batches[call.idx].config)
    /\ batches' = [batches EXCEPT ![call.idx] = HandleLine(@, GenText(text, valid))]
    /\ call' = [GeneratorCounts(call, valid) EXCEPT
                   !.yielded = Append(@, GenText(text, valid))]
    /\ UNCHANGED <<object, disk, ret>>

\* mutant: batch_status is emptied on every turn of the loop
WithStatusAlone(status, idx, value) == [i \in {idx} |-> value]

\* generate_all_batch_lines: batch_status, filled batch by batch
WithStatus(status, idx, value) ==
    [i \in DOMAIN status \cup {idx} |-> IF i = idx THEN value ELSE status[i]]

\* the generator is exhausted: generate_batch_lines returns, and within
\* generate_all_batch_lines the loop goes on to the next key
GenReturn ==
    /\ call.op = "generate_batch_lines"
    /\ GeneratorDone(call, batches[call.idx].config)
    /\ LET value == GenerateResult(batches[call.idx])
           status == WithStatus(call.status, call.idx, value)
       IN  IF ~call.all
           THEN /\ ret' = Outcome("generate_batch_lines", call.idx, "none", "",
                                  value, NoStatus, <<>>)
                /\ call' = Idle
                /\ UNCHANGED batches
           ELSE IF call.idx + 1 \in Keys
           THEN /\ BeginGenerate(call.idx + 1, call.max_invalid, TRUE, status)
                /\ UNCHANGED ret
           ELSE /\ ret' = Outcome("generate_all_batch_lines", 0, "none", "",
                                  FALSE, status, <<>>)
                /\ call' = Idle
                /\ UNCHANGED batches
    /\ UNCHANGED <<object, disk>>

GenerateAllBatchLines(max_invalid) ==
    /\ constructed /\ call.op = "idle"
    /\ BeginGenerate(0, max_invalid, TRUE, NoStatus)
    /\ ret' = Pending("generate_all_batch_lines", 0)
    /\ UNCHANGED <<object, disk>>

\* ------------------------------------------------ batch_to_df, batches_to_df
BatchToDf(batch_idx) ==
    /\ constructed /\ call.op = "idle"
    /\ ret' = IF batch_idx \notin Keys
              THEN Raised("batch_to_df", batch_idx, "ValueError", "batch_idx is invalid!")
              ELSE Outcome("batch_to_df", batch_idx, "none", "", FALSE, NoStatus,
                           <<SyntheticDf(batches[batch_idx])>>)
    /\ UNCHANGED <<object, batches, disk, call>>

\* accum_df after the batches 0..k
RECURSIVE AccumDf(_)
AccumDf(k) ==
    IF k = 0 THEN SyntheticDf(batches[0])
    ELSE ConcatColumns(AccumDf(k - 1), SyntheticDf(batches[k]))

LastKey == Cardinality(Keys) - 1

BatchesToDf ==
    /\ constructed /\ call.op = "idle"
    /\ ret' = IF HasColumns(AccumDf(LastKey), master_header_list)
              THEN Outcome("batches_to_df", 0, "none", "", FALSE, NoStatus,
                           <<SelectColumns(AccumDf(LastKey), master_header_list)>>)
              ELSE Raised("batches_to_df", 0, "KeyError", "")
    /\ UNCHANGED <<object, batches, disk, call>>

\* ------------------------------------------------------------------- Spec
\* Before any DataFrameBatch is built: no object, an empty disk.
Init ==
    /\ constructed = FALSE
    /\ source_df = EmptyDataFrame
    /\ batch_size = 0
    /\ master_header_list = <<>>
    /\ batch_headers = <<>>
    /\ config = <<>>
    /\ batches = <<>>
    /\ fs_dirs = {}
    /\ fs_files = <<>>
    /\ call = Idle
    /\ ret = Returned("start", 0)

\* The inputs of Spec: a two-column source of one row, every batch_size
\* from 0 to one more than the columns, a config that is absent, lacks the
\* delimiter, lacks gen_lines or names it.
SpecColumns == <<Names[1], Names[2]>>
SpecTables == {DataFrame(SpecColumns, <<<<X, NaN>>>>)}
NoConfig == ConfigArg(FALSE, FALSE, FALSE, 0)
NoDelimiter == ConfigArg(TRUE, FALSE, FALSE, 0)
GoodConfigs ==
    {ConfigArg(TRUE, TRUE, FALSE, 0)}
    \cup {ConfigArg(TRUE, TRUE, TRUE, g) : g \in 1..MaxGenLines}
BatchSizes(columns) == 0..(Len(columns) + 1)
\* <<batch_size, config>>: a config the constructor rejects is tried with one
\* batch_size, since it is rejected before batch_size is read
ConstructArgs(columns) ==
    (BatchSizes(columns) \X GoodConfigs) \cup ({1} \X {NoConfig, NoDelimiter})
\* batch numbers a caller passes: the keys and one that is never a key
IdxArgs == 0..Len(SpecColumns)
\* the max_invalid a caller passes
MaxInvalidArgs == {0, 1}

\* The lines the generator of Spec produces for a batch of h headers: h - 1
\* and h fields "x", and h fields the last of which is empty.
Fields(k, last) == [j \in 1..k |-> IF j = k THEN last ELSE X]
LinePool(h) ==
    {Join(Fields(k, X), Delim) : k \in Max(1, h - 1)..h}
    \cup {Join(Fields(h, Empty), Delim)}

DoConstruct ==
    \E df \in SpecTables, args \in ConstructArgs(SpecColumns) :
        Construct(df, args[1], <<>>, args[2])

DoTrainBatch ==
    \E batch_idx \in IdxArgs, outcome \in TrainOutcomes : TrainBatch(batch_idx, outcome)

DoTrainAllBatches ==
    \E outcomes \in [Keys -> TrainOutcomes] : TrainAllBatches(outcomes)

DoSetBatchValidator ==
    \E batch_idx \in IdxArgs, validator \in Validators \cup {NotCallable} :
        SetBatchValidator(batch_idx, validator)

DoGenerateBatchLines ==
    \E batch_idx \in IdxArgs, max_invalid \in MaxInvalidArgs :
        GenerateBatchLines(batch_idx, max_invalid)

\* the generator yields a line of the pool, flagged as the validator it was
\* given answers
GeneratorYields ==
    /\ call.op = "generate_batch_lines"
    /\ \E text \in LinePool(Len(batches[call.idx].headers)) :
          GenYield(text, CallValidator(batches[call.idx], call.validator, text))

DoGenerateAllBatchLines ==
    \E max_invalid \in MaxInvalidArgs : GenerateAllBatchLines(max_invalid)

DoBatchToDf == \E batch_idx \in IdxArgs : BatchToDf(batch_idx)

Next ==
    \/ DoConstruct
    \/ CreateTrainingData
    \/ DoTrainBatch
    \/ DoTrainAllBatches
    \/ DoSetBatchValidator
    \/ DoGenerateBatchLines
    \/ GeneratorYields
    \/ GenReturn
    \/ DoGenerateAllBatchLines
    \/ DoBatchToDf
    \/ BatchesToDf

Spec == Init /\ [][Next]_vars

\* ---------------------------------------------------------- SpecPartition
\* One even-split construction on an empty disk, for every list of distinct
\* column names of length 0..MaxCols and every batch_size from 0 to one more
\* than its length.
RECURSIVE DistinctSeqs(_, _)
\* the sequences of n distinct elements of S
DistinctSeqs(S, n) ==
    IF n = 0 THEN {<<>>}
    ELSE UNION {{Append(s, x) : x \in S \ Range(s)} : s \in DistinctSeqs(S, n - 1)}

ColumnLists ==
    UNION {DistinctSeqs({Names[k] : k \in 1..MaxCols}, n) : n \in 0..MaxCols}

ConstructEven ==
    /\ ret.op = "start"
    /\ \E columns \in ColumnLists : \E size \in BatchSizes(columns) :
          Construct(DataFrame(columns, <<>>), size, <<>>,
                    ConfigArg(TRUE, TRUE, FALSE, 0))

NextPartition == ConstructEven

SpecPartition == Init /\ [][NextPartition]_vars

\* ---------------------------------------------------------- SpecRoundTrip
\* extract, train, generate with a stub, reassemble: one pass for every
\* source of up to three columns and MaxRows rows of cells x, y or missing,
\* and every batch_size the constructor accepts.  An empty cell and a missing
\* one give the same source: fillna makes both "".
Cells == {X, Y, NaN}
\* the sources of n columns
RoundTripTables(n) ==
    {DataFrame(SubSeq(Names, 1, n), rows) :
        rows \in UNION {[1..r -> [1..n -> Cells]] : r \in 0..MaxRows}}

RtConstruct ==
    /\ ret.op = "start"
    /\ \E n \in 1..3 : \E df \in RoundTripTables(n) : \E size \in 1..n :
          Construct(df, size, <<>>, ConfigArg(TRUE, TRUE, FALSE, 0))

RtCreateTrainingData == ret.op = "__init__" /\ CreateTrainingData

\* the stub training capability returns for every batch
RtTrainAllBatches ==
    /\ ret.op = "create_training_data"
    /\ TrainAllBatches([i \in Keys |-> "ok"])

RtGenerateAllBatchLines ==
    /\ ret.op = "train_all_batches"
    /\ \E max_invalid \in MaxInvalidArgs : GenerateAllBatchLines(max_invalid)

\* the stub generator yields the batch's original rows, in order, as valid
\* lines: the cells of the row joined by the delimiter, or the line of the
\* training file
StubLines(b, n) ==
    {Join(b.training_df[1].rows[n], b.config.field_delimiter),
     ToCsvLine(b.training_df[1].rows[n], b.config.field_delimiter)}

RtStubYields ==
    /\ call.op = "generate_batch_lines"
    /\ ~GeneratorDone(call, batches[call.idx].config)
    /\ \E text \in StubLines(batches[call.idx], call.n_valid + 1) :
          GenYield(text, "True")

RtBatchesToDf == ret.op = "generate_all_batch_lines" /\ BatchesToDf

NextRoundTrip ==
    \/ RtConstruct
    \/ RtCreateTrainingData
    \/ RtTrainAllBatches
    \/ RtGenerateAllBatchLines
    \/ RtStubYields
    \/ GenReturn
    \/ RtBatchesToDf

SpecRoundTrip == Init /\ [][NextRoundTrip]_vars

\* ----------------------------------------------------------- SpecExplicit
\* One construction with explicit batch_headers over the two-column source:
\* every list of one or two groups, each group one or both column names in
\* either order; then generation of all batches and reassembly.
Groups == {<<Names[1]>>, <<Names[2]>>, <<Names[1], Names[2]>>, <<Names[2], Names[1]>>}
GroupLists == {<<g>> : g \in Groups} \cup {<<g, h>> : g \in Groups, h \in Groups}

ExConstruct ==
    /\ ret.op = "start"
    /\ \E df \in SpecTables, groups \in GroupLists :
          Construct(df, 1, groups, ConfigArg(TRUE, TRUE, FALSE, 0))

ExGenerateAllBatchLines ==
    /\ ret.op = "__init__"
    /\ \E max_invalid \in MaxInvalidArgs : GenerateAllBatchLines(max_invalid)

NextExplicit ==
    \/ ExConstruct
    \/ ExGenerateAllBatchLines
    \/ GeneratorYields
    \/ GenReturn
    \/ BatchesToDf

SpecExplicit == Init /\ [][NextExplicit]_vars

\* ================================================================= claims
Abs(n) == IF n < 0 THEN 0 - n ELSE n

\* the headers of the batches, concatenated in batch-number order
StoreHeaders == Flatten([k \in 1..Cardinality(Keys) |-> batches[k - 1].headers])

\* __init__ has just run in even-split mode and got as far as batch_size
EvenSplitTried == ret.op = "__init__" /\ batch_size >= 1

\* C1: in even-split mode with 1 <= batch_size <= number of columns the
\* constructor succeeds, the batches are keyed 0..N-1 with N >= 1, none is
\* empty, and their headers concatenated in batch order are the original
\* column list: same order, every column exactly once.
PartitionReconstructsColumns ==
    (EvenSplitTried /\ batch_size <= Len(master_header_list)) =>
        /\ constructed
        /\ Keys # {}
        /\ Keys = 0..(Cardinality(Keys) - 1)
        /\ \A i \in Keys : batches[i].headers # <<>>
        /\ StoreHeaders = master_header_list
        /\ \A c \in Range(master_header_list) :
              Cardinality({p \in Keys \X (1..Len(master_header_list)) :
                              /\ p[2] <= Len(batches[p[1]].headers)
                              /\ batches[p[1]].headers[p[2]] = c}) = 1

\* C1 witness: five columns split into two batches of unequal size
WitnessUnevenPartition ==
    /\ constructed
    /\ Len(master_header_list) = 5
    /\ Cardinality(Keys) = 2
    /\ Len(batches[0].headers) = 3

\* the chunks are contiguous, in order, and of nearly equal size
NearlyEqualChunks ==
    /\ Flatten(batch_headers) = master_header_list
    /\ \A i, j \in 1..Len(batch_headers) :
          Abs(Len(batch_headers[i]) - Len(batch_headers[j])) <= 1

\* C10 as stated: in even-split mode the number of batches is
\* max(1, floor(total_columns / batch_size)) and the batches are contiguous
\* chunks of nearly equal size.
EvenSplitCountAtLeastOne ==
    EvenSplitTried =>
        /\ constructed
        /\ Len(batch_headers) =
              Max(1, Len(master_header_list) \div batch_size)
        /\ NearlyEqualChunks

\* C10 amended: in even-split mode with 1 <= batch_size <= total_columns the
\* number of batches is floor(total_columns / batch_size), the batches are
\* contiguous chunks in the original order and their sizes differ by at most
\* one; with total_columns < batch_size the constructor raises ValueError and
\* builds no batch.
EvenSplitCount ==
    EvenSplitTried =>
        IF batch_size <= Len(master_header_list)
        THEN /\ constructed
             /\ Len(batch_headers) = Len(master_header_list) \div batch_size
             /\ Cardinality(Keys) = Len(batch_headers)
             /\ NearlyEqualChunks
        ELSE /\ ~constructed
             /\ ret.exc = "ValueError"
             /\ batches = <<>>

\* C10 witness: five columns, batch_size 2: two chunks, of 3 and 2 columns
WitnessFiveByTwo ==
    /\ constructed
    /\ Len(master_header_list) = 5
    /\ batch_size = 2
    /\ Len(batch_headers) = 2
    /\ Len(batch_headers[1]) = 3
    /\ Len(batch_headers[2]) = 2

\* C2 as stated: after extract, stub train, stub generate of the original
\* rows and reassembly, batches_to_df returns a table whose columns are the
\* original column list, with as many rows as the source and the source's
\* cells.
RoundTripReassembly ==
    ret.op = "batches_to_df" =>
        /\ ret.exc = "none"
        /\ ret.df[1].columns = master_header_list
        /\ Len(ret.df[1].rows) = Len(source_df.rows)
        /\ ret.df[1].rows = source_df.rows

\* ---- generation
\* a direct or nested generate_batch_lines call ends in this step
GenerationEnds ==
    /\ call.op = "generate_batch_lines"
    /\ call'.op = "idle" \/ call'.idx # call.idx

\* C3: when the generator has yielded more than max_invalid invalid lines
\* before gen_lines valid ones, generate_batch_lines returns false and the
\* batch's gen_data_count is below gen_lines as the call ends.
InvalidThresholdRespected ==
    [][(/\ GenerationEnds
        /\ call.n_invalid > call.max_invalid
        /\ call.n_valid < batches[call.idx].config.gen_lines)
       => (/\ batches'[call.idx].gen_data_count <
                 batches'[call.idx].config.gen_lines
           /\ IF ~call.all
              THEN /\ ret'.op = "generate_batch_lines"
                   /\ ret'.exc = "none"
                   /\ ret'.flag = FALSE
              ELSE IF call'.op = "idle"
              THEN ret'.status[call.idx] = FALSE
              ELSE call'.status[call.idx] = FALSE)]_vars

\* C3 witness: a call that returned false after two invalid lines, one more
\* than the max_invalid of 1
WitnessThresholdExceeded ==
    /\ ret.op = "generate_batch_lines"
    /\ ret.exc = "none"
    /\ ~ret.flag
    /\ Len(batches[ret.idx].gen_data_invalid) = 2
    /\ batches[ret.idx].gen_data_count < batches[ret.idx].config.gen_lines

\* C4: generate_all_batch_lines returns a mapping over exactly the batch
\* numbers; a batch maps to true iff its gen_data_count equals gen_lines after
\* this run, a batch that fell short maps to false, and every batch has been
\* generated: its stream is the header line and the valid lines counted, and
\* it either reached its target or overran the invalid threshold.
AllBatchesStatus ==
    (ret.op = "generate_all_batch_lines" /\ ret.exc = "none") =>
        /\ DOMAIN ret.status = Keys
        /\ \A i \in Keys :
              /\ ret.status[i] \in BOOLEAN
              /\ ret.status[i] <=>
                    (batches[i].gen_data_count = batches[i].config.gen_lines)
              /\ batches[i].gen_data_count < batches[i].config.gen_lines
                    => ~ret.status[i] /\ batches[i].gen_data_invalid # <<>>
              /\ Len(batches[i].gen_data_stream) = batches[i].gen_data_count + 1

\* C4 witness: the first batch fell short, the second was generated in full
WitnessShortThenFull ==
    /\ ret.op = "generate_all_batch_lines"
    /\ ret.exc = "none"
    /\ Cardinality(Keys) = 2
    /\ ~ret.status[0]
    /\ ret.status[1]
    /\ batches[1].gen_data_count = batches[1].config.gen_lines

\* ---- errors
InvalidIndexMessages ==
    {"batch_idx is invalid", "invalid batch number!", "invalid batch index",
     "batch_idx is invalid!"}

\* C5: train_batch, set_batch_validator with a callable, generate_batch_lines
\* and batch_to_df, called with a batch number that is no key, raise the
\* invalid-index ValueError and change no batch and nothing on disk.
UnknownIndexRejected ==
    [][(/\ constructed
        /\ call.op = "idle"
        /\ ret'.op \in {"train_batch", "set_batch_validator",
                        "generate_batch_lines", "batch_to_df"}
        /\ ret'.idx \notin Keys
        /\ ret'.op = "set_batch_validator" => ret'.arg \in Validators)
       => (/\ ret'.exc = "ValueError"
           /\ ret'.msg \in InvalidIndexMessages
           /\ batches' = batches
           /\ fs_files' = fs_files
           /\ fs_dirs' = fs_dirs
           /\ call' = call)]_vars

\* C5 witness: train_batch was refused for an unknown batch number while a
\* batch holds generated lines and a persisted validator
WitnessUnknownIndex ==
    /\ ret.op = "train_batch"
    /\ ret.exc = "ValueError"
    /\ ret.idx \notin Keys
    /\ \E i \in Keys :
          /\ batches[i].gen_data_count > 0
          /\ batches[i].validator # None

\* C6: set_batch_validator with a non-callable raises ValueError("validator
\* must be callable!") for a known and for an unknown batch number, and then
\* no batch and no file changes; with a callable and a known batch number it
\* installs the callable on that batch alone and writes it to the batch's
\* validator file.
ValidatorMustBeCallable ==
    [][(constructed /\ call.op = "idle" /\ ret'.op = "set_batch_validator")
       => IF ret'.arg \notin Validators
          THEN /\ ret'.exc = "ValueError"
               /\ ret'.msg = "validator must be callable!"
               /\ batches' = batches
               /\ fs_files' = fs_files
          ELSE ret'.idx \in Keys =>
                  /\ ret'.exc = "none"
                  /\ batches'[ret'.idx].validator = ret'.arg
                  /\ \A j \in Keys \ {ret'.idx} : batches'[j] = batches[j]
                  /\ ValidatorFile(batches[ret'.idx].checkpoint_dir)
                        \in DOMAIN fs_files'
                  /\ PickleLoads(
                        fs_files'[ValidatorFile(batches[ret'.idx].checkpoint_dir)])
                        = ret'.arg]_vars

\* C6 witness: a non-callable was refused for an unknown batch number while
\* a batch has a validator installed
WitnessNotCallable ==
    /\ ret.op = "set_batch_validator"
    /\ ret.arg = NotCallable
    /\ ret.exc = "ValueError"
    /\ ret.idx \notin Keys
    /\ \E i \in Keys : batches[i].validator = NoBlanks

\* ---- validators
\* the lines the validators are compared on
AllLines == SeqsUpTo({"x", Delim}, MaxLineLen)

\* the answer of the validator the batch hands to the generator
Classify(b, raw_line) == CallValidator(b, GetValidator(b), raw_line)

\* C7: a build finds on batch i the validator persisted in batch i's
\* directory: it answers every line as the persisted callable does, and a
\* batch with no persisted validator has no custom validator; a rebuild over
\* the same partition leaves every batch that had a validator set with one
\* that answers every line as before.
ValidatorPersistenceRoundTrip ==
    [][(call.op = "idle" /\ ret'.op = "__init__" /\ constructed')
       => /\ \A i \in DOMAIN batches' :
                IF ValidatorFile(BatchDir(Root, i)) \in DOMAIN fs_files
                THEN \A line \in AllLines :
                        Classify(batches'[i], line) =
                           CallCustom(PickleLoads(
                              fs_files[ValidatorFile(BatchDir(Root, i))]), line)
                ELSE batches'[i].validator = None
          /\ (constructed /\ batch_headers' = batch_headers) =>
                \A i \in Keys :
                   IF batches[i].validator = None
                   THEN batches'[i].validator = None
                   ELSE \A line \in AllLines :
                           Classify(batches'[i], line) =
                              CallCustom(batches[i].validator, line)]_vars

\* C7 witness: after a build, one batch carries the persisted validator and
\* the other none
WitnessValidatorReloaded ==
    /\ ret.op = "__init__"
    /\ constructed
    /\ Cardinality(Keys) = 2
    /\ batches[0].validator = None
    /\ batches[1].validator = NoBlanks

\* the number of fields of a line: one more than its delimiters
FieldCount(raw_line) ==
    Cardinality({k \in 1..Len(raw_line) : raw_line[k] = Delim}) + 1

\* C8: get_validator returns the custom validator when one is set and the
\* default one otherwise; the default one answers true exactly for the lines
\* with as many fields as the batch has headers, and the generation call is
\* handed the validator get_validator returns.
DefaultValidatorCountsFields ==
    /\ \A i \in Keys :
          IF batches[i].validator # None
          THEN GetValidator(batches[i]) = batches[i].validator
          ELSE /\ GetValidator(batches[i]) = Basic
               /\ \A line \in AllLines :
                     Classify(batches[i], line) =
                        IF FieldCount(line) = Len(batches[i].headers)
                        THEN "True" ELSE "False"
    /\ call.op = "generate_batch_lines" =>
          call.validator = IF batches[call.idx].validator # None
                           THEN batches[call.idx].validator ELSE Basic

\* C8 witness: under the default validator a batch of two headers took a
\* line of two fields and refused a line of one
WitnessDefaultValidator ==
    /\ constructed
    /\ Cardinality(Keys) = 1
    /\ batches[0].validator = None
    /\ batches[0].gen_data_count = 1
    /\ batches[0].gen_data_invalid # <<>>

\* C9: a build over the same root with the same columns and batch_size as the
\* build before it does not raise, gives the same batch numbers and the same
\* checkpoint and source paths, batch_<i> under the root, and keeps every
\* file and directory on disk as it was.
IdempotentBuild ==
    [][(/\ constructed
        /\ call.op = "idle"
        /\ ret'.op = "__init__"
        /\ master_header_list' = master_header_list
        /\ batch_size' = batch_size)
       => (/\ ret'.exc = "none"
           /\ constructed'
           /\ DOMAIN batches' = Keys
           /\ \A i \in Keys :
                 /\ batches'[i].checkpoint_dir = Root \o <<BatchNames[i + 1]>>
                 /\ batches'[i].checkpoint_dir = batches[i].checkpoint_dir
                 /\ batches'[i].input_data_path = batches[i].input_data_path
                 /\ batches'[i].config.checkpoint_dir = batches[i].checkpoint_dir
                 /\ batches'[i].config.input_data_path = batches[i].input_data_path
                 /\ batches'[i].headers = batches[i].headers
           /\ fs_dirs \subseteq fs_dirs'
           /\ \A p \in DOMAIN fs_files :
                 p \in DOMAIN fs_files' /\ fs_files'[p] = fs_files[p])]_vars

\* C9 witness: after a build, the training file and the persisted validator
\* of a batch written before it are on disk
WitnessRebuiltOverData ==
    /\ ret.op = "__init__"
    /\ constructed
    /\ TrainFile(BatchDir(Root, 0)) \in DOMAIN fs_files
    /\ ValidatorFile(BatchDir(Root, 0)) \in DOMAIN fs_files

\* ---- C11..C20
\* C11 as stated: without batch_headers, a batch_size of 0 or one above the
\* number of columns makes the constructor fail with the configuration error
\* (ValueError), before any batch or batch directory exists.
DegenerateSplitRejected ==
    (ret.op = "__init__" /\ (batch_size = 0 \/ Len(master_header_list) < batch_size))
        => /\ ~constructed
           /\ ret.exc = "ValueError"
           /\ batches = <<>>
           /\ fs_dirs = {}

\* C12: in every state, whatever was constructed, reset, generated or read,
\* each batch's stream starts with its one header line, the headers joined by
\* the delimiter, and gen_data_count is the number of lines after it.
StreamCountsRows ==
    \A i \in Keys :
        /\ batches[i].gen_data_stream # <<>>
        /\ batches[i].gen_data_stream[1] =
              Join(batches[i].headers, batches[i].config.field_delimiter)
        /\ batches[i].gen_data_count = Len(batches[i].gen_data_stream) - 1
        /\ batches[i].gen_data_count >= 0

\* C12 witness: a batch that holds a generated line has been read as a table
WitnessReadAfterGenerate ==
    /\ ret.op = "batch_to_df"
    /\ ret.exc = "none"
    /\ batches[ret.idx].gen_data_count >= 1

\* a direct or nested generate_batch_lines call on a known batch begins in
\* this step
GenerationBegins ==
    /\ call'.op = "generate_batch_lines"
    /\ call.op = "idle" \/ call'.idx # call.idx

\* a yielded line counts as valid
Taken(line) == line.valid \in {None, "True"}
Refused(line) == ~Taken(line)
\* the texts of the lines that count as valid, in the order yielded
TakenTexts(lines) ==
    [k \in 1..Len(SelectSeq(lines, Taken)) |-> SelectSeq(lines, Taken)[k].text]

\* C13: a generate_batch_lines call on a known batch begins by leaving the
\* batch reset, whatever it held: no invalid line, a stream of the header
\* line alone, count 0; and when the call ends the batch holds the lines of
\* this call only.
StartsFromReset ==
    [][/\ GenerationBegins =>
            /\ batches'[call'.idx].gen_data_invalid = <<>>
            /\ batches'[call'.idx].gen_data_stream =
                  <<Join(batches[call'.idx].headers,
                         batches[call'.idx].config.field_delimiter)>>
            /\ batches'[call'.idx].gen_data_count = 0
       /\ GenerationEnds =>
            /\ Tail(batches'[call.idx].gen_data_stream) = TakenTexts(call.yielded)
            /\ batches'[call.idx].gen_data_count = Len(TakenTexts(call.yielded))
            /\ batches'[call.idx].gen_data_invalid =
                  SelectSeq(call.yielded, Refused)]_vars

\* C13 witness: a call has ended on a batch that holds one invalid line and
\* no valid one
WitnessOnlyLastCall ==
    /\ ret.op = "generate_batch_lines"
    /\ ret.exc = "none"
    /\ batches[ret.idx].gen_data_count = 0
    /\ Len(batches[ret.idx].gen_data_stream) = 1
    /\ Len(batches[ret.idx].gen_data_invalid) = 1

TrainFailurePropagates ==
    (ret.op = "train_batch" /\ ret.idx \in Keys) =>
        /\ ret.exc = IF ret.arg = "ok" THEN "none" ELSE ret.arg
        /\ ~(ret.exc = "ValueError" /\ ret.msg \in InvalidIndexMessages)

\* C16 as stated: train_batch and train_all_batches call the training
\* capability for a batch only when its training_df is set, and
\* create_training_data never sets a training_df that is set already.
TrainingSubsetOnceBeforeTrain ==
    [][(constructed /\ call.op = "idle") =>
          /\ (ret'.op = "train_batch" /\ ret'.idx \in Keys) =>
                batches[ret'.idx].training_df # <<>>
          /\ ret'.op = "train_all_batches" => batches[0].training_df # <<>>
          /\ ret'.op = "create_training_data" =>
                \A i \in Keys : batches[i].training_df = <<>>]_vars

\* a generation run on batch i has completed since construction: the batch
\* holds its gen_lines lines or the invalid lines that cut the run short
GenerationCompleted(i) ==
    \/ batches[i].gen_data_count = batches[i].config.gen_lines
    \/ batches[i].gen_data_invalid # <<>>

\* C17 as stated: batches_to_df returns a table only when every batch has
\* completed a generation run since construction.
ReassemblyNeedsGeneration ==
    (ret.op = "batches_to_df" /\ ret.exc = "none") =>
        \A i \in Keys : GenerationCompleted(i)

\* the rows of batch i's generated table
TableRows(i) == SyntheticDf(batches[i]).rows
\* the largest number of rows a batch's table has
MostRows ==
    CHOOSE n \in {Len(TableRows(i)) : i \in Keys} :
        \A i \in Keys : Len(TableRows(i)) <= n
\* the place of a column in the original column list
ColumnPlace(name) ==
    CHOOSE p \in 1..Len(master_header_list) : master_header_list[p] = name

IsPartition(groups, columns) ==
    \A c \in Range(columns) :
        Cardinality({p \in (1..Len(groups)) \X (1..Len(columns)) :
                        /\ p[2] <= Len(groups[p[1]])
                        /\ groups[p[1]][p[2]] = c}) = 1

\* C19 as stated: explicit batch_headers are taken as given, unchecked, by
\* the constructor, and whenever they are no partition of the columns (a
\* column in no group, or in more than one) batches_to_df raises instead of
\* returning a table.
ExplicitGroupsCheckedLater ==
    /\ ret.op = "__init__" =>
          /\ constructed
          /\ Cardinality(Keys) = Len(batch_headers)
          /\ \A i \in Keys : batches[i].headers = batch_headers[i + 1]
    /\ (ret.op = "batches_to_df" /\ ~IsPartition(batch_headers, master_header_list))
          => ret.exc # "none"

\* this step is part of train_batch(i), set_batch_validator(i, fn) or
\* generate_batch_lines(i): the call, a yield to it, or its return
StepOnBatch(i) ==
    \/ /\ call.op = "idle"
       /\ ret'.op \in {"train_batch", "set_batch_validator"}
       /\ ret'.idx = i
    \/ call'.op = "generate_batch_lines" /\ call'.idx = i
    \/ call.op = "generate_batch_lines" /\ call.idx = i /\ call'.op = "idle"

\* the paths whose content this step wrote or removed
Written ==
    {p \in DOMAIN fs_files \cup DOMAIN fs_files' :
        \/ p \notin DOMAIN fs_files
        \/ p \notin DOMAIN fs_files'
        \/ fs_files'[p] # fs_files[p]}

\* C20: a step of train_batch, set_batch_validator or generate_batch_lines on
\* batch i leaves every other batch as it was (headers, config, validator,
\* count, stream, invalid list) and writes only under batch i's checkpoint
\* directory.
BatchesAreIndependent ==
    [][\A i \in Keys :
          StepOnBatch(i) =>
             /\ DOMAIN batches' = Keys
             /\ \A j \in Keys \ {i} : batches'[j] = batches[j]
             /\ batches'[i].headers = batches[i].headers
             /\ batches'[i].config = batches[i].config
             /\ \A p \in Written :
                   SubSeq(p, 1, Len(batches[i].checkpoint_dir))
                      = batches[i].checkpoint_dir
             /\ fs_dirs' = fs_dirs]_vars

\* C20 witness: a validator was set on batch 1 while batch 0 holds a
\* generated line and no validator
WitnessOtherBatchUntouched ==
    /\ ret.op = "set_batch_validator"
    /\ ret.exc = "none"
    /\ ret.idx = 1
    /\ batches[0].gen_data_count = 1
    /\ batches[0].validator = None
    /\ batches[1].validator = AcceptAll

====
